---- MODULE Spec2Model ----
(***************************************************************************)
(* Model of the two request handlers of the repository:                    *)
(*   - sam_app/my-sam-app/hello_world/app.py : lambda_handler              *)
(*   - secure_share/secure_share/views.py    : generate_presigned_url      *)
(* The storage SDK (boto3) is an external collaborator: constructing a     *)
(* client and signing either succeed or raise, chosen nondeterministically.*)
(***************************************************************************)
EXTENDS Integers, FiniteSets, TLC

VARIABLES
    event,        \* lambda_handler: event of the latest invocation
    context,      \* lambda_handler: context of the latest invocation
    response,     \* lambda_handler: value returned by the latest invocation
    bodies,       \* every body string returned by lambda_handler so far
    invocations,  \* number of lambda_handler invocations so far
    settings,     \* django.conf.settings (process-wide)
    pc,           \* per invocation of generate_presigned_url: position
    file_key,     \* per invocation: parameter file_key
    arg,          \* per invocation: the expiration argument as passed
    expiration,   \* per invocation: parameter expiration (default applied)
    s3_client,    \* per invocation: local s3_client
    request,      \* per invocation: signing request issued at line 13
    result,       \* per invocation: outcome (return value or raised error)
    clientError,  \* per invocation: error the storage client raised
    constructed,  \* per invocation: number of boto3.client(...) calls
    signed,       \* per invocation: number of signing requests issued
    clientsMade,  \* storage clients constructed so far (ids 1..clientsMade)
    signsOn,      \* per client id: signing requests issued on that client
    settingsEpoch,\* number of changes made to the settings so far
    signedAt      \* per invocation: settingsEpoch when it issued its request

lambdaVars == <<event, context, response, bodies, invocations>>
urlVars == <<settings, pc, file_key, arg, expiration, s3_client, request,
             result, clientError, constructed, signed, clientsMade, signsOn,
             settingsEpoch, signedAt>>
vars == <<lambdaVars, urlVars>>

(* ------------------------------ bounds -------------------------------- *)
MaxInvocations == 3
MaxClients == 3
MaxSettingsChanges == 2

Procs == {"t1", "t2"}

(* ------------------- hello_world/app.py: lambda_handler ---------------- *)
NoInput == [type |-> "none"]
Events ==
    {[type |-> "null"], [type |-> "empty"]}
        \cup [type : {"http"}, httpMethod : {"GET", "POST", "DELETE"},
              path : {"/", "/index.html", "/admin"}]
Contexts ==
    {[type |-> "null"], [type |-> "empty"],
     [type |-> "lambda", function_name |-> "HelloWorldFunction"],
     [type |-> "lambda", function_name |-> "other"]}

html_content ==
    "\n<!DOCTYPE html>\n<html>\n<head>\n    <title>Novey Cloud</title>\n</head>\n<body>\n    <h1>Welcome to Django!</h1>\n    <p>This is your index.html page.</p>\n</body>\n</html>\n    "

NoResponse == [kind |-> "none"]

lambda_handler_reads_event(ev, ctx) ==
    IF ev.type = "http"
    THEN [kind |-> "return", statusCode |-> 200,
          headers |-> ("Content-Type" :> "text/html"),
          body |-> html_content]
    ELSE [kind |-> "raise", error |-> "TypeError"]

lambda_handler_echoes_path(ev, ctx) ==
    [kind |-> "return", statusCode |-> 200,
     headers |-> ("Content-Type" :> "text/html"),
     body |-> IF ev.type = "http" /\ ev.path = "/admin"
              THEN "<h1>/admin</h1>" ELSE html_content]

lambda_handler(ev, ctx) ==
    [kind |-> "return", statusCode |-> 200,
     headers |-> ("Content-Type" :> "text/html"),
     body |-> html_content]

Invoke(ev, ctx) ==
    /\ invocations < MaxInvocations
    /\ event' = ev
    /\ context' = ctx
    /\ response' = lambda_handler(ev, ctx)
    /\ bodies' = IF response'.kind = "return"
                 THEN bodies \cup {response'.body} ELSE bodies
    /\ invocations' = invocations + 1
    /\ UNCHANGED urlVars

(* --------------- secure_share/views.py: generate_presigned_url --------- *)
DefaultExpiration == 3600

SettingsA ==
    [AWS_S3_REGION_NAME |-> "us-east-1", AWS_ACCESS_KEY_ID |-> "AKIA-A",
     AWS_SECRET_ACCESS_KEY |-> "secret-A",
     AWS_STORAGE_BUCKET_NAME |-> "bucket-a"]
SettingsB ==
    [AWS_S3_REGION_NAME |-> "eu-west-1", AWS_ACCESS_KEY_ID |-> "AKIA-B",
     AWS_SECRET_ACCESS_KEY |-> "secret-B",
     AWS_STORAGE_BUCKET_NAME |-> "bucket-b"]
SettingsChoices == {SettingsA, SettingsB}

FileKeys == {"reports/q1.pdf", "../bucket-b/missing.txt"}
Expirations == {-1, 0, 60, 3600}
NoArg == [given |-> FALSE, value |-> 0]
Args == {NoArg} \cup [given : {TRUE}, value : Expirations]
ClientErrors == {"AccessDenied", "EndpointConnectionError"}
Signatures == {"sig-1", "sig-2"}

NoClient ==
    [id |-> 0, region_name |-> "", aws_access_key_id |-> "",
     aws_secret_access_key |-> ""]
NoRequest == [client |-> 0]
NoResult == [kind |-> "none"]
NoError == "none"

\* The module reads django.conf.settings each time it evaluates settings.X.
ReadSettingsCached == SettingsA

ReadSettings == settings

\* def generate_presigned_url(file_key, expiration=3600)
ResolveExpirationShort(a) == IF a.given THEN a.value ELSE 60

ResolveExpiration(a) == IF a.given THEN a.value ELSE DefaultExpiration

\* boto3.client('s3', region_name=..., aws_access_key_id=..., ...)
NewClientPooled(id) ==
    [id |-> 1,
     region_name |-> ReadSettings.AWS_S3_REGION_NAME,
     aws_access_key_id |-> ReadSettings.AWS_ACCESS_KEY_ID,
     aws_secret_access_key |-> ReadSettings.AWS_SECRET_ACCESS_KEY]

NewClient(id) ==
    [id |-> id,
     region_name |-> ReadSettings.AWS_S3_REGION_NAME,
     aws_access_key_id |-> ReadSettings.AWS_ACCESS_KEY_ID,
     aws_secret_access_key |-> ReadSettings.AWS_SECRET_ACCESS_KEY]

\* the arguments of s3_client.generate_presigned_url(...)
PresignRequestFixedExpiry(client, key, exp) ==
    [client |-> client.id, ClientMethod |-> "get_object",
     Bucket |-> ReadSettings.AWS_STORAGE_BUCKET_NAME, Key |-> key,
     ExpiresIn |-> DefaultExpiration]

PresignRequestClamped(client, key, exp) ==
    [client |-> client.id, ClientMethod |-> "get_object",
     Bucket |-> ReadSettings.AWS_STORAGE_BUCKET_NAME, Key |-> key,
     ExpiresIn |-> IF exp < 1 THEN 1 ELSE exp]

PresignRequestKeyBucket(client, key, exp) ==
    [client |-> client.id, ClientMethod |-> "get_object",
     Bucket |-> IF key = "../bucket-b/missing.txt" THEN "bucket-b"
                ELSE ReadSettings.AWS_STORAGE_BUCKET_NAME,
     Key |-> key, ExpiresIn |-> exp]

PresignRequest(client, key, exp) ==
    [client |-> client.id, ClientMethod |-> "get_object",
     Bucket |-> ReadSettings.AWS_STORAGE_BUCKET_NAME, Key |-> key,
     ExpiresIn |-> exp]

\* The signer's answer: a URL for the request, signed with the client's
\* credentials; the signature is the signer's own choice.
SignedUrl(client, req, sig) ==
    [Region |-> client.region_name, Bucket |-> req.Bucket, Key |-> req.Key,
     Method |-> req.ClientMethod,
     Credential |-> client.aws_access_key_id, Expires |-> req.ExpiresIn,
     Signature |-> sig]

\* No try/except around either SDK call: the error leaves the function as is.
OnClientErrorFallback(e) ==
    [kind |-> "return",
     value |-> [Region |-> "", Bucket |-> "", Key |-> "", Method |-> "",
                Credential |-> "", Expires |-> 0, Signature |-> ""]]

OnClientError(e) == [kind |-> "raise", error |-> e]

InConstruction == {p \in Procs : pc[p] = "L8"}

\* A caller enters generate_presigned_url.
Call(p, key, a) ==
    /\ pc[p] = "idle"
    /\ clientsMade + Cardinality(InConstruction) < MaxClients
    /\ pc' = [pc EXCEPT ![p] = "L8"]
    /\ file_key' = [file_key EXCEPT ![p] = key]
    /\ arg' = [arg EXCEPT ![p] = a]
    /\ expiration' = [expiration EXCEPT ![p] = ResolveExpiration(a)]
    /\ UNCHANGED <<settings, s3_client, request, result, clientError,
                   constructed, signed, clientsMade, signsOn, settingsEpoch,
                   signedAt, lambdaVars>>

\* Lines 8-12: boto3.client(...) returns a new client.
CreateClientOk(p) ==
    /\ pc[p] = "L8"
    /\ clientsMade' = clientsMade + 1
    /\ s3_client' = [s3_client EXCEPT ![p] = NewClient(clientsMade')]
    /\ constructed' = [constructed EXCEPT ![p] = @ + 1]
    /\ pc' = [pc EXCEPT ![p] = "L13"]
    /\ UNCHANGED <<settings, file_key, arg, expiration, request, result,
                   clientError, signed, signsOn, settingsEpoch, signedAt,
                   lambdaVars>>

\* Lines 8-12: boto3.client(...) raises.
CreateClientRaises(p, e) ==
    /\ pc[p] = "L8"
    /\ constructed' = [constructed EXCEPT ![p] = @ + 1]
    /\ clientError' = [clientError EXCEPT ![p] = e]
    /\ result' = [result EXCEPT ![p] = OnClientError(e)]
    /\ pc' = [pc EXCEPT ![p] = IF result'[p].kind = "raise"
                               THEN "raised" ELSE "returned"]
    /\ UNCHANGED <<settings, file_key, arg, expiration, s3_client, request,
                   signed, clientsMade, signsOn, settingsEpoch, signedAt,
                   lambdaVars>>

\* Lines 13-17: the signing request is issued and the signer answers.
SignOk(p, sig) ==
    /\ pc[p] = "L13"
    /\ request' = [request EXCEPT
                     ![p] = PresignRequest(s3_client[p], file_key[p],
                                           expiration[p])]
    /\ signed' = [signed EXCEPT ![p] = @ + 1]
    /\ signsOn' = [signsOn EXCEPT ![s3_client[p].id] = @ + 1]
    /\ result' = [result EXCEPT
                    ![p] = [kind |-> "return",
                            value |-> SignedUrl(s3_client[p], request'[p],
                                                sig)]]
    /\ pc' = [pc EXCEPT ![p] = "returned"]
    /\ signedAt' = [signedAt EXCEPT ![p] = settingsEpoch]
    /\ UNCHANGED <<settings, file_key, arg, expiration, s3_client,
                   clientError, constructed, clientsMade, settingsEpoch,
                   lambdaVars>>

SignRaisesRetry(p, e) ==
    /\ pc[p] = "L13"
    /\ request' = [request EXCEPT
                     ![p] = PresignRequest(s3_client[p], file_key[p],
                                           expiration[p])]
    /\ signed' = [signed EXCEPT ![p] = @ + 1]
    /\ signsOn' = [signsOn EXCEPT ![s3_client[p].id] = @ + 1]
    /\ signedAt' = [signedAt EXCEPT ![p] = settingsEpoch]
    /\ UNCHANGED <<settings, pc, file_key, arg, expiration, s3_client, result,
                   clientError, constructed, clientsMade, settingsEpoch,
                   lambdaVars>>

\* Lines 13-17: the signing request is issued and the client raises.
SignRaises(p, e) ==
    /\ pc[p] = "L13"
    /\ request' = [request EXCEPT
                     ![p] = PresignRequest(s3_client[p], file_key[p],
                                           expiration[p])]
    /\ signed' = [signed EXCEPT ![p] = @ + 1]
    /\ signsOn' = [signsOn EXCEPT ![s3_client[p].id] = @ + 1]
    /\ clientError' = [clientError EXCEPT ![p] = e]
    /\ result' = [result EXCEPT ![p] = OnClientError(e)]
    /\ pc' = [pc EXCEPT ![p] = IF result'[p].kind = "raise"
                               THEN "raised" ELSE "returned"]
    /\ signedAt' = [signedAt EXCEPT ![p] = settingsEpoch]
    /\ UNCHANGED <<settings, file_key, arg, expiration, s3_client,
                   constructed, clientsMade, settingsEpoch, lambdaVars>>

\* The caller has the outcome; the frame and its client are discarded.
Discard(p) ==
    /\ pc[p] \in {"returned", "raised"}
    /\ pc' = [pc EXCEPT ![p] = "idle"]
    /\ file_key' = [file_key EXCEPT ![p] = ""]
    /\ arg' = [arg EXCEPT ![p] = NoArg]
    /\ expiration' = [expiration EXCEPT ![p] = 0]
    /\ s3_client' = [s3_client EXCEPT ![p] = NoClient]
    /\ request' = [request EXCEPT ![p] = NoRequest]
    /\ result' = [result EXCEPT ![p] = NoResult]
    /\ clientError' = [clientError EXCEPT ![p] = NoError]
    /\ constructed' = [constructed EXCEPT ![p] = 0]
    /\ signed' = [signed EXCEPT ![p] = 0]
    /\ signedAt' = [signedAt EXCEPT ![p] = 0]
    /\ UNCHANGED <<settings, clientsMade, signsOn, settingsEpoch, lambdaVars>>

\* The process-wide settings are changed from outside the function.
ChangeSettings(s) ==
    /\ s # settings
    /\ settingsEpoch < MaxSettingsChanges
    /\ settings' = s
    /\ settingsEpoch' = settingsEpoch + 1
    /\ UNCHANGED <<pc, file_key, arg, expiration, s3_client, request, result,
                   clientError, constructed, signed, clientsMade, signsOn,
                   signedAt, lambdaVars>>

(* ---------------------------- specifications --------------------------- *)
Init ==
    /\ event = NoInput
    /\ context = NoInput
    /\ response = NoResponse
    /\ bodies = {}
    /\ invocations = 0
    /\ settings = SettingsA
    /\ pc = [p \in Procs |-> "idle"]
    /\ file_key = [p \in Procs |-> ""]
    /\ arg = [p \in Procs |-> NoArg]
    /\ expiration = [p \in Procs |-> 0]
    /\ s3_client = [p \in Procs |-> NoClient]
    /\ request = [p \in Procs |-> NoRequest]
    /\ result = [p \in Procs |-> NoResult]
    /\ clientError = [p \in Procs |-> NoError]
    /\ constructed = [p \in Procs |-> 0]
    /\ signed = [p \in Procs |-> 0]
    /\ clientsMade = 0
    /\ signsOn = [i \in 1..MaxClients |-> 0]
    /\ settingsEpoch = 0
    /\ signedAt = [p \in Procs |-> 0]

Next ==
    \/ \E p \in Procs, key \in FileKeys, a \in Args : Call(p, key, a)
    \/ \E p \in Procs : CreateClientOk(p)
    \/ \E p \in Procs, e \in ClientErrors : CreateClientRaises(p, e)
    \/ \E p \in Procs, sig \in Signatures : SignOk(p, sig)
    \/ \E p \in Procs, e \in ClientErrors : SignRaises(p, e)
    \/ \E p \in Procs : Discard(p)
    \/ \E s \in SettingsChoices : ChangeSettings(s)

Spec == Init /\ [][Next]_vars

NextLambda == \E ev \in Events, ctx \in Contexts : Invoke(ev, ctx)

SpecLambda == Init /\ [][NextLambda]_vars

(* ------------------------------- claims -------------------------------- *)
ExpectedResponse ==
    [kind |-> "return", statusCode |-> 200,
     headers |-> ("Content-Type" :> "text/html"),
     body |-> "\n<!DOCTYPE html>\n<html>\n<head>\n    <title>Novey Cloud</title>\n</head>\n<body>\n    <h1>Welcome to Django!</h1>\n    <p>This is your index.html page.</p>\n</body>\n</html>\n    "]

\* C1: whatever event and context an invocation is given (null and empty
\* ones included), lambda_handler returns the fixed record: status 200,
\* the single header Content-Type: text/html, the fixed HTML body; it never
\* fails.
C1_FixedResponse == invocations > 0 => response = ExpectedResponse

C1_Witness ==
    /\ invocations > 0
    /\ event.type = "null"
    /\ context.type = "null"
    /\ response.kind = "return"
    /\ response.statusCode = 200

\* C2: all invocations return the same body, and an invocation changes
\* nothing but its own input and output (no state of the process is
\* written).
C2_SameBodyNoSideEffects ==
    /\ [](Cardinality(bodies) <= 1)
    /\ [](invocations > 0 => response.kind = "return"
                             /\ bodies = {response.body})
    /\ [][invocations' # invocations => UNCHANGED urlVars]_vars

C2_Witness ==
    /\ invocations >= 2
    /\ event.type = "http"
    /\ event.path = "/admin"
    /\ Cardinality(bodies) = 1

\* C3: a call without an expiration argument issues a signing request for
\* the configured bucket, the given file_key and ExpiresIn = 3600, and
\* returns the URL the signer produced for that request.
C3_DefaultExpiration ==
    [][\A p \in Procs :
         (pc[p] = "L13" /\ pc'[p] = "returned" /\ ~arg[p].given) =>
            /\ request'[p].Bucket = settings.AWS_STORAGE_BUCKET_NAME
            /\ request'[p].Key = file_key[p]
            /\ request'[p].ExpiresIn = 3600
            /\ \E sig \in Signatures :
                 result'[p] = [kind |-> "return",
                               value |-> SignedUrl(s3_client[p], request'[p],
                                                   sig)]]_vars

C3_Witness ==
    \E p \in Procs :
        /\ pc[p] = "returned"
        /\ ~arg[p].given
        /\ file_key[p] = "reports/q1.pdf"
        /\ result[p].kind = "return"
        /\ result[p].value.Bucket = "bucket-a"
        /\ result[p].value.Key = "reports/q1.pdf"
        /\ result[p].value.Expires = 3600

\* C4: a call with an explicit expiration e returns a URL whose expiry is e,
\* and for the same file_key a call with e # 3600 returns a URL different
\* from the URL of a call without the argument.
C4_ExplicitExpiration ==
    /\ \A p \in Procs :
         (pc[p] = "returned" /\ arg[p].given) =>
            /\ result[p].kind = "return"
            /\ result[p].value.Expires = arg[p].value
    /\ \A p, q \in Procs :
         ( /\ pc[p] = "returned" /\ pc[q] = "returned"
           /\ file_key[p] = file_key[q]
           /\ ~arg[p].given
           /\ arg[q].given /\ arg[q].value # 3600 ) =>
            result[p].value # result[q].value

C4_Witness ==
    /\ pc["t1"] = "returned" /\ pc["t2"] = "returned"
    /\ file_key["t1"] = file_key["t2"]
    /\ ~arg["t1"].given
    /\ arg["t2"].given /\ arg["t2"].value = 60
    /\ result["t2"].value.Expires = 60
    /\ result["t1"].value.Signature = result["t2"].value.Signature
    /\ result["t1"].value.Bucket = result["t2"].value.Bucket
    /\ result["t1"].value.Credential = result["t2"].value.Credential

\* C5: when the storage client raises, at construction or at signing, the
\* call ends by raising that very error and returns no URL.
C5_ErrorPropagates ==
    \A p \in Procs :
        clientError[p] # NoError =>
            /\ pc[p] = "raised"
            /\ result[p] = [kind |-> "raise", error |-> clientError[p]]

C5_Witness ==
    /\ pc["t1"] = "raised" /\ signed["t1"] = 0
    /\ clientError["t1"] = "EndpointConnectionError"
    /\ pc["t2"] = "raised" /\ signed["t2"] = 1
    /\ clientError["t2"] = "AccessDenied"
    /\ result["t2"].error = "AccessDenied"

\* C6: a call constructs one new client and then issues one signing request
\* on it: never a request before the client, never a second request (no
\* retry), never a client that already served a request, and the URL it
\* returns is the one the signer produced for this call's request.
C6_OneClientOneRequest ==
    /\ \A p \in Procs :
         /\ constructed[p] <= 1
         /\ signed[p] <= constructed[p]
         /\ pc[p] \in {"idle", "L8"} => constructed[p] = 0 /\ signed[p] = 0
         /\ pc[p] = "L13" =>
               constructed[p] = 1 /\ signed[p] = 0 /\ s3_client[p].id # 0
         /\ pc[p] = "returned" => constructed[p] = 1 /\ signed[p] = 1
         /\ pc[p] = "raised" => constructed[p] = 1
         /\ signed[p] = 1 =>
               /\ s3_client[p].id # 0
               /\ request[p].client = s3_client[p].id
         /\ pc[p] = "returned" =>
               result[p].value =
                   SignedUrl(s3_client[p], request[p],
                             result[p].value.Signature)
    /\ \A i \in DOMAIN signsOn : signsOn[i] <= 1

C6_Witness ==
    /\ clientsMade = 3
    /\ signsOn[1] = 1 /\ signsOn[2] = 1
    /\ pc["t1"] = "raised" /\ signed["t1"] = 1
    /\ pc["t2"] = "L13" /\ s3_client["t2"].id = 3

OwnClient(p) ==
    /\ s3_client[p].id # 0 =>
          \A q \in Procs \ {p} : s3_client[q].id # s3_client[p].id
    /\ signed[p] >= 1 => request[p].client = s3_client[p].id

OwnUrl(p) ==
    pc[p] = "returned" =>
        /\ result[p].kind = "return"
        /\ result[p].value.Bucket = request[p].Bucket
        /\ result[p].value.Key = file_key[p]
        /\ result[p].value.Expires = expiration[p]

ObjectOf(url) == <<url.Bucket, url.Key>>

SameCall(p, q) ==
    /\ p # q
    /\ pc[p] = "returned" /\ pc[q] = "returned"
    /\ file_key[p] = file_key[q]
    /\ expiration[p] = expiration[q]

\* C7 as stated: under any interleaving each invocation uses only its own
\* client and returns a URL for its own bucket, key and expiration, and two
\* concurrent calls with the same key and expiration return URLs of the
\* same object.
C7_SameObject ==
    /\ \A p \in Procs : OwnClient(p) /\ OwnUrl(p)
    /\ \A p, q \in Procs :
         SameCall(p, q) =>
            ObjectOf(result[p].value) = ObjectOf(result[q].value)

\* C7 amended: as C7, the URLs of two concurrent calls with the same key and
\* expiration designating the same object when the settings were not
\* changed between the two signing requests.
C7_SameObjectUnchangedSettings ==
    /\ \A p \in Procs : OwnClient(p) /\ OwnUrl(p)
    /\ \A p, q \in Procs :
         (SameCall(p, q) /\ signedAt[p] = signedAt[q]) =>
            ObjectOf(result[p].value) = ObjectOf(result[q].value)

C7_Witness ==
    /\ SameCall("t1", "t2")
    /\ signedAt["t1"] = signedAt["t2"]
    /\ s3_client["t1"].id # s3_client["t2"].id
    /\ result["t1"].value # result["t2"].value
    /\ ObjectOf(result["t1"].value) = ObjectOf(result["t2"].value)

\* C8: the region, the access key id and the secret key of a client are the
\* settings' values at the moment the client is constructed, and the bucket
\* of a signing request is the settings' value at the moment it is issued.
C8_SettingsAtCallTime ==
    [][\A p \in Procs :
         /\ (pc[p] = "L8" /\ pc'[p] = "L13") =>
               /\ s3_client'[p].region_name = settings.AWS_S3_REGION_NAME
               /\ s3_client'[p].aws_access_key_id = settings.AWS_ACCESS_KEY_ID
               /\ s3_client'[p].aws_secret_access_key =
                      settings.AWS_SECRET_ACCESS_KEY
         /\ (pc[p] = "L13" /\ signed'[p] > signed[p]) =>
               request'[p].Bucket = settings.AWS_STORAGE_BUCKET_NAME]_vars

C8_Witness ==
    /\ settings = SettingsB
    /\ pc["t1"] = "idle"
    /\ signsOn[1] = 1
    /\ pc["t2"] = "returned"
    /\ s3_client["t2"].id = 2
    /\ s3_client["t2"].region_name = "eu-west-1"
    /\ s3_client["t2"].aws_access_key_id = "AKIA-B"
    /\ s3_client["t2"].aws_secret_access_key = "secret-B"
    /\ request["t2"].Bucket = "bucket-b"
    /\ signedAt["t2"] = 1

\* C9: the function checks nothing itself: every signing request carries the
\* file_key and the expiration exactly as passed (zero and negative values
\* too), and a call fails only with an error the storage client raised.
C9_NoValidation ==
    \A p \in Procs :
        /\ signed[p] >= 1 =>
              /\ request[p].Key = file_key[p]
              /\ request[p].ExpiresIn = expiration[p]
              /\ arg[p].given => request[p].ExpiresIn = arg[p].value
        /\ pc[p] = "raised" =>
              /\ clientError[p] # NoError
              /\ result[p].error = clientError[p]

C9_Witness ==
    /\ pc["t1"] = "returned"
    /\ file_key["t1"] = "../bucket-b/missing.txt"
    /\ arg["t1"] = [given |-> TRUE, value |-> -1]
    /\ request["t1"].ExpiresIn = -1
    /\ pc["t2"] = "returned"
    /\ arg["t2"] = [given |-> TRUE, value |-> 0]
    /\ request["t2"].ExpiresIn = 0

\* C10: every signing request is for the operation get_object on the bucket
\* the settings name when it is issued, whatever the file_key and the
\* expiration.
C10_GetObjectOnConfiguredBucket ==
    [][\A p \in Procs :
         request'[p] # request[p] /\ request'[p] # NoRequest =>
            /\ request'[p].ClientMethod = "get_object"
            /\ request'[p].Bucket = settings.AWS_STORAGE_BUCKET_NAME]_vars

C10_Witness ==
    \E p \in Procs :
        /\ pc[p] = "returned"
        /\ file_key[p] = "../bucket-b/missing.txt"
        /\ request[p].ClientMethod = "get_object"
        /\ request[p].Bucket = "bucket-a"
        /\ result[p].value.Method = "get_object"

====
